---- MODULE Spec2Model ----
(***************************************************************************)
(* Model of airflow/dags/train_from_minio.py: the module-level BUCKET,     *)
(* the two tasks fetch_latest_partition and train_model of the DAG         *)
(* train_from_minio, and the wiring train_model(fetch_latest_partition()). *)
(* The S3 hook, the object store, the process environment and the          *)
(* scheduler are the environment of that code.                             *)
(***************************************************************************)
EXTENDS Integers, Sequences, FiniteSets, TLC

\* ---------------------------------------------------------------- bounds
MaxRuns == 2        \* DAG runs the scheduler creates
MaxKeys == 6        \* objects in the largest partition of the store

Runs == 1..MaxRuns

\* ------------------------------------------------------- python values
PyNone == [kind |-> "None"]
PyList(items) == [kind |-> "list", items |-> items]
Raised == [kind |-> "raise"]
Unset == [kind |-> "unset"]

\* Python truth value of a hook result: None and the empty list are falsy.
Truthy(v) == v.kind = "list" /\ v.items # <<>>

Min(a, b) == IF a <= b THEN a ELSE b

\* ------------------------------------------------------- environment
EnvName == "MINIO_BUCKET"
DefaultBucket == "truck-telemetry"
ConnId == "minio_s3"
Truck == "TRUCK-001"

\* os.environ as a mapping: the variable is either absent or bound to a string.
EnvUnset == [n \in {} |-> ""]
EnvSet(v) == [n \in {EnvName} |-> v]
EnvValues == {"", "fleet-b"}
Environs == {EnvUnset} \cup {EnvSet(v) : v \in EnvValues}

\* Run dates (ds) the scheduler hands to a run.
Dates == {"2025-01-01", "2025-01-02", "2025-01-03"}

\* The object store: a set of objects, each in a bucket under truck/date/name.
ObjName(i) == "part-" \o ToString(i) \o ".parquet"
Partition(b, t, d, n) ==
    {[bucket |-> b, truck |-> t, date |-> d, n |-> i] : i \in 1..n}
KeyOf(o) == o.truck \o "/" \o o.date \o "/" \o ObjName(o.n)
InitialObjects ==
    Partition(DefaultBucket, Truck, "2025-01-01", MaxKeys)
        \cup Partition(DefaultBucket, Truck, "2025-01-03", 2)
        \cup Partition(DefaultBucket, "TRUCK-002", "2025-01-02", 1)
        \cup Partition("fleet-b", Truck, "2025-01-02", 1)
ExistingBuckets == {DefaultBucket, "fleet-b"}

VARIABLES
    environ,        \* os.environ of the process (MINIO_BUCKET only)
    loadEnviron,    \* os.environ as it was when the module was imported
    BUCKET,         \* module global BUCKET
    objects,        \* contents of the object store
    ds,             \* ds[r]: run date of run r
    fetchState,     \* fetchState[r]: task instance state of fetch_latest_partition
    trainState,     \* trainState[r]: task instance state of train_model
    requests,       \* requests[r]: storage requests issued by run r, in order
    listing,        \* listing[r]: what hook.list_keys answered in run r
    staleEnv,       \* staleEnv[r]: os.environ differed from loadEnviron when run r listed
    xcom,           \* xcom[r]: return value of fetch_latest_partition in run r
    trainArg,       \* trainArg[r]: the list train_model was called with, after the call
    stdout          \* stdout[r]: lines train_model printed in run r

vars == <<environ, loadEnviron, BUCKET, objects, ds, fetchState, trainState,
          requests, listing, staleEnv, xcom, trainArg, stdout>>

\* ------------------------------------------------------- line 9
\* Variant of os_getenv that also defaults on an empty value (`os.getenv(n) or d`).
os_getenv_falsy_default(env, name, default) ==
    IF name \in DOMAIN env /\ env[name] # "" THEN env[name] ELSE default

os_getenv(env, name, default) ==
    IF name \in DOMAIN env THEN env[name] ELSE default

ResolveBucket(env) == os_getenv(env, EnvName, DefaultBucket)

\* ------------------------------------------------------- lines 20-24
\* f"TRUCK-001/{ds}/": str.format of a str is that str, of None is "None".
Format(v) == IF v = PyNone THEN "None" ELSE v.s

\* Variant of Prefix without the closing slash.
PrefixNoSlash(d) == "TRUCK-001/" \o Format(d)

Prefix(d) == "TRUCK-001/" \o Format(d) \o "/"

\* The bucket a listing request names: the module global, read at call time.
\* Variant of RequestBucket that reads the environment at call time.
BucketFromEnvironAtCall == ResolveBucket(environ)

RequestBucket == BUCKET

ListRequest(d) ==
    [op |-> "list_keys", aws_conn_id |-> ConnId,
     bucket_name |-> RequestBucket, prefix |-> Prefix(d)]

\* Keys of the store that start with a prefix.  Keys have the layout
\* truck/date/name, so a key starts with "t/d/" iff its truck is t and its date d,
\* and with "t/d" or "t/" or "" likewise by component.
StartsWith(o, p) ==
    \/ p = ""
    \/ p = o.truck \o "/"
    \/ p = o.truck \o "/" \o o.date
    \/ p = o.truck \o "/" \o o.date \o "/"
    \/ p = KeyOf(o)

Matching(objs, req) ==
    {o \in objs : o.bucket = req.bucket_name /\ StartsWith(o, req.prefix)}

\* The store lists keys in ascending key order.
RECURSIVE Listed(_)
Listed(S) ==
    IF S = {} THEN <<>>
    ELSE LET o == CHOOSE x \in S :
                    \A y \in S : <<x.truck, x.date>> = <<y.truck, y.date>> => x.n <= y.n
         IN <<KeyOf(o)>> \o Listed(S \ {o})

\* What hook.list_keys can answer: it raises (no connection, no such bucket),
\* or returns the keys; with no key found it returns None or the empty list.
HookOutcomes(objs, req) ==
    {Raised} \cup
    (IF req.bucket_name \notin ExistingBuckets THEN {}
     ELSE IF Matching(objs, req) = {} THEN {PyNone, PyList(<<>>)}
     ELSE {PyList(Listed(Matching(objs, req)))})

\* The effect of the request on the store: list_keys reads only.
\* Variant of StorageAfter in which the request removes what it lists.
StorageAfterDelete(objs, req) == objs \ Matching(objs, req)

StorageAfter(objs, req) == objs

\* `x or []`
\* Variant of OrEmpty without the default.
OrEmptyIdentity(v) == v

OrEmpty(v) == IF Truthy(v) THEN v ELSE PyList(<<>>)

\* The body of fetch_latest_partition on a hook answer: an exception propagates.
\* Variant of FetchReturn that swallows the exception and defaults.
FetchReturnCatching(h) == OrEmpty(IF h = Raised THEN PyNone ELSE h)

FetchReturn(h) == IF h = Raised THEN Raised ELSE OrEmpty(h)

\* ------------------------------------------------------- lines 26-29
\* Variant of Slice taking the last n items (keys[-n:]).
SliceLast(items, n) == SubSeq(items, Len(items) - Min(n, Len(items)) + 1, Len(items))

\* keys[:n]
Slice(items, n) == SubSeq(items, 1, Min(n, Len(items)))

PreviewLen == 5

\* Variant of Summary that counts the preview instead of the list.
SummaryCountOfPreview(keys) ==
    [count |-> Len(Slice(keys.items, PreviewLen)),
     preview |-> Slice(keys.items, PreviewLen)]

\* The line printed: "Training on {count} objects: {preview}".
Summary(keys) ==
    [count |-> Len(keys.items), preview |-> Slice(keys.items, PreviewLen)]

\* ------------------------------------------------------- line 31
\* train_model(fetch_latest_partition()): the argument is the upstream task's
\* return value of the same run, and the upstream task must have succeeded.
\* Variant of UpstreamDone that does not wait for the upstream task to end.
UpstreamIgnored(r) == fetchState[r] # "none"

UpstreamDone(r) == fetchState[r] = "success"

\* Variant of XComPull that is not filtered by run.
XComPullAnyRun(r) ==
    IF \E q \in Runs : xcom[q] # Unset
    THEN xcom[CHOOSE q \in Runs : xcom[q] # Unset]
    ELSE PyNone

XComPull(r) == IF xcom[r] = Unset THEN PyNone ELSE xcom[r]

\* ------------------------------------------------------- state machine
Init ==
    /\ environ \in Environs
    /\ loadEnviron = environ
    /\ BUCKET = ResolveBucket(environ)
    /\ objects = InitialObjects
    /\ ds = [r \in Runs |-> PyNone]
    /\ fetchState = [r \in Runs |-> "none"]
    /\ trainState = [r \in Runs |-> "none"]
    /\ requests = [r \in Runs |-> <<>>]
    /\ listing = [r \in Runs |-> Unset]
    /\ staleEnv = [r \in Runs |-> FALSE]
    /\ xcom = [r \in Runs |-> Unset]
    /\ trainArg = [r \in Runs |-> Unset]
    /\ stdout = [r \in Runs |-> <<>>]

\* The process environment changes after the module was imported.
SetEnv(e) ==
    /\ e # environ
    /\ environ' = e
    /\ UNCHANGED <<loadEnviron, BUCKET, objects, ds, fetchState, trainState,
                   requests, listing, staleEnv, xcom, trainArg, stdout>>

\* The scheduler creates run r for date d (schedule_interval="@daily").
TriggerRun(r, d) ==
    /\ fetchState[r] = "none"
    /\ \A q \in Runs : q < r => fetchState[q] # "none"
    /\ ds' = [ds EXCEPT ![r] = [s |-> d]]
    /\ fetchState' = [fetchState EXCEPT ![r] = "scheduled"]
    /\ UNCHANGED <<environ, loadEnviron, BUCKET, objects, trainState,
                   requests, listing, staleEnv, xcom, trainArg, stdout>>

\* fetch_latest_partition(ds) of run r.
Fetch(r) ==
    /\ fetchState[r] = "scheduled"
    /\ LET req == ListRequest(ds[r]) IN
       \E h \in HookOutcomes(objects, req) :
          /\ requests' = [requests EXCEPT ![r] = Append(@, req)]
          /\ objects' = StorageAfter(objects, req)
          /\ listing' = [listing EXCEPT ![r] = h]
          /\ staleEnv' = [staleEnv EXCEPT ![r] = (environ # loadEnviron)]
          /\ IF FetchReturn(h) = Raised
             THEN /\ fetchState' = [fetchState EXCEPT ![r] = "failed"]
                  /\ xcom' = xcom
             ELSE /\ fetchState' = [fetchState EXCEPT ![r] = "success"]
                  /\ xcom' = [xcom EXCEPT ![r] = FetchReturn(h)]
    /\ UNCHANGED <<environ, loadEnviron, BUCKET, ds, trainState, trainArg, stdout>>

\* The scheduler gives up on train_model of a run whose fetch failed.
MarkUpstreamFailed(r) ==
    /\ fetchState[r] = "failed"
    /\ trainState[r] = "none"
    /\ trainState' = [trainState EXCEPT ![r] = "upstream_failed"]
    /\ UNCHANGED <<environ, loadEnviron, BUCKET, objects, ds, fetchState,
                   requests, listing, staleEnv, xcom, trainArg, stdout>>

\* train_model(keys) of run r; len() of a value that is no list raises TypeError.
Train(r) ==
    /\ trainState[r] = "none"
    /\ UpstreamDone(r)
    /\ LET keys == XComPull(r) IN
       /\ trainArg' = [trainArg EXCEPT ![r] = keys]
       /\ IF keys.kind = "list"
          THEN /\ stdout' = [stdout EXCEPT ![r] = Append(@, Summary(keys))]
               /\ trainState' = [trainState EXCEPT ![r] = "success"]
          ELSE /\ stdout' = stdout
               /\ trainState' = [trainState EXCEPT ![r] = "failed"]
    /\ UNCHANGED <<environ, loadEnviron, BUCKET, objects, ds, fetchState,
                   requests, listing, staleEnv, xcom>>

Next ==
    \/ \E e \in Environs : SetEnv(e)
    \/ \E r \in Runs, d \in Dates : TriggerRun(r, d)
    \/ \E r \in Runs : Fetch(r)
    \/ \E r \in Runs : MarkUpstreamFailed(r)
    \/ \E r \in Runs : Train(r)

Spec == Init /\ [][Next]_vars

\* ------------------------------------------------------- properties
Started(r) == trainState[r] \in {"success", "failed"}
Fetched(r) == fetchState[r] \in {"success", "failed"}

\* C1: in every run, train_model starts only after fetch_latest_partition of the
\* same run has succeeded, and the list it is called with is exactly the list that
\* fetch_latest_partition of that run returned (same elements, same order).
C1_TrainAfterFetchSameKeys ==
    \A r \in Runs :
        Started(r) =>
            /\ fetchState[r] = "success"
            /\ xcom[r] # Unset
            /\ trainArg[r] = xcom[r]

C1_Witness ==
    \E r \in Runs :
        /\ trainState[r] = "success"
        /\ trainArg[r].kind = "list"
        /\ Len(trainArg[r].items) >= 2

\* C2: for every list the storage call returns, including the empty list,
\* train_model ends without an error and prints one line whose count is the
\* length of that list.
C2_TrainCountsEveryList ==
    \A r \in Runs :
        (listing[r].kind = "list" /\ trainState[r] # "none") =>
            /\ trainState[r] = "success"
            /\ Len(stdout[r]) = 1
            /\ stdout[r][1].count = Len(listing[r].items)

C2_Witness ==
    \E r, q \in Runs :
        /\ listing[r] = PyList(<<>>) /\ trainState[r] = "success"
        /\ listing[q].kind = "list" /\ Len(listing[q].items) > 5
        /\ trainState[q] = "success"

\* C3: fetch_latest_partition returns the empty list when the listing answers
\* None or the empty list, returns a non-empty listing unchanged, and never hands
\* None to train_model.
C3_FetchDefaultsToEmptyList ==
    \A r \in Runs :
        /\ fetchState[r] = "success" =>
              /\ xcom[r].kind = "list"
              /\ listing[r] \in {PyNone, PyList(<<>>)} => xcom[r] = PyList(<<>>)
              /\ listing[r] \notin {PyNone, PyList(<<>>)} => xcom[r] = listing[r]
        /\ trainArg[r] # PyNone

C3_Witness ==
    \E r \in Runs :
        /\ listing[r] = PyNone
        /\ fetchState[r] = "success"
        /\ trainState[r] = "success"

\* C4: the one listing request of a run with run date ds names the prefix
\* "TRUCK-001/" + ds + "/", the bucket held in BUCKET and the connection "minio_s3".
C4_ExpectedPrefix(d) ==
    CASE d = "2025-01-01" -> "TRUCK-001/2025-01-01/"
      [] d = "2025-01-02" -> "TRUCK-001/2025-01-02/"
      [] d = "2025-01-03" -> "TRUCK-001/2025-01-03/"

C4_RequestShape ==
    \A r \in Runs :
        IF Fetched(r)
        THEN /\ Len(requests[r]) = 1
             /\ requests[r][1].op = "list_keys"
             /\ requests[r][1].prefix = C4_ExpectedPrefix(ds[r].s)
             /\ requests[r][1].bucket_name = BUCKET
             /\ requests[r][1].aws_conn_id = "minio_s3"
        ELSE requests[r] = <<>>

C4_Witness ==
    \E r \in Runs :
        /\ Fetched(r)
        /\ ds[r].s = "2025-01-02"
        /\ requests[r][1].prefix = "TRUCK-001/2025-01-02/"

\* C5: BUCKET is "truck-telemetry" when MINIO_BUCKET was unset at import, and is
\* the value of MINIO_BUCKET when it was set, the empty string included.
C5_BucketResolution ==
    /\ loadEnviron = EnvUnset => BUCKET = "truck-telemetry"
    /\ \A v \in EnvValues : loadEnviron = EnvSet(v) => BUCKET = v

C5_Witness ==
    /\ loadEnviron = EnvSet("")
    /\ BUCKET = ""
    /\ \E r \in Runs : Fetched(r)

\* C6: when the listing raises, the fetch task fails after its one request, no
\* list is returned in its place, and train_model of that run prints nothing.
C6_ListingErrorFailsRun ==
    \A r \in Runs :
        listing[r] = Raised =>
            /\ fetchState[r] = "failed"
            /\ Len(requests[r]) = 1
            /\ xcom[r] = Unset
            /\ trainState[r] \in {"none", "upstream_failed"}
            /\ trainArg[r] = Unset
            /\ stdout[r] = <<>>

C6_Witness ==
    \E r \in Runs :
        /\ listing[r] = Raised
        /\ trainState[r] = "upstream_failed"

C8_PreviewIsFirstFive ==
    \A r \in Runs :
        trainState[r] = "success" =>
            LET items == xcom[r].items
                shown == stdout[r][1].preview
            IN /\ Len(shown) = (IF Len(items) <= 5 THEN Len(items) ELSE 5)
               /\ \A i \in 1..Len(shown) : shown[i] = items[i]
               /\ Len(items) <= 5 => shown = items
               /\ trainArg[r] = PyList(items)

C8_Witness ==
    \E r \in Runs :
        /\ trainState[r] = "success"
        /\ Len(xcom[r].items) > 5
        /\ Len(stdout[r][1].preview) = 5

\* C9: the line a run prints is determined by the answer to that run's own
\* listing call: it is the summary of that answer, and two runs whose listings
\* answered the same print the same, whatever the other runs did.
C9_OwnKeys(r) == IF listing[r].kind = "list" THEN listing[r].items ELSE <<>>

C9_RunsIndependent ==
    /\ \A r \in Runs :
          trainState[r] = "success" =>
              /\ Len(stdout[r]) = 1
              /\ stdout[r][1].count = Len(C9_OwnKeys(r))
              /\ \A i \in 1..Len(stdout[r][1].preview) :
                    stdout[r][1].preview[i] = C9_OwnKeys(r)[i]
    /\ \A r, q \in Runs :
          (trainState[r] = "success" /\ trainState[q] = "success"
              /\ C9_OwnKeys(r) = C9_OwnKeys(q)) => stdout[r] = stdout[q]

C9_Witness ==
    \E r, q \in Runs :
        /\ r < q
        /\ trainState[r] = "success" /\ trainState[q] = "success"
        /\ C9_OwnKeys(r) # C9_OwnKeys(q)
        /\ stdout[r] # stdout[q]

\* C10: BUCKET is never reassigned after import, and every listing request names
\* that bucket, also when MINIO_BUCKET has changed since the import.
C10_BucketFixedAtLoad ==
    /\ [][BUCKET' = BUCKET]_vars
    /\ [](\A r \in Runs : \A i \in 1..Len(requests[r]) :
              requests[r][i].bucket_name = BUCKET)

C10_Witness ==
    \E r \in Runs :
        /\ staleEnv[r]
        /\ Len(requests[r]) = 1
        /\ requests[r][1].bucket_name = ResolveBucket(loadEnviron)
        /\ requests[r][1].bucket_name # ResolveBucket(environ)

====
